---- MODULE Spec2Model ----
(***************************************************************************)
(* Model of src/src/components/new-note-card.tsx (NewNoteCard): the note   *)
(* draft (content, selectedFolderId, shouldShowOnboarding), the dictation  *)
(* session (isRecording, isRecordingRef, speechRecognitionRef), the        *)
(* platform SpeechRecognition streams it creates, and the restart timers   *)
(* scheduled by onend.  One action per handler / platform callback; all    *)
(* run to completion on one event loop.  Buttons and fields are available   *)
(* only while the JSX renders them (lines 179-246).  The Brave advisory    *)
(* (lines 70-83) only shows a warning toast and is left out.               *)
(***************************************************************************)
EXTENDS Integers, Sequences, FiniteSets

\* ---- bounds ----
MaxStreams == 2      \* streams (new SpeechRecognitionAPI()) created in one run
MaxTyped == 1        \* length of a value typed into the textarea
MaxSegments == 2     \* segments in one stream's event.results

\* ---- values ----
Words == {"a", "b"}
FolderIds == {"f1"}
NoFolder == "null"
NoStream == 0
StreamIds == 1..MaxStreams
TypedValues == UNION {[1..n -> Words] : n \in 0..MaxTyped}
\* A segment of event.results: its first alternative's transcript.  The handler
\* never reads isFinal, so a segment the platform may still revise (interim) and
\* one it may not (final) differ only in the events that can follow.
Segments == [transcript : {<<w>> : w \in Words}]

VARIABLES
  shouldShowOnboarding,  \* useState(true)
  isRecording,           \* useState(false)
  content,               \* useState("")
  selectedFolderId,      \* useState(null)
  speechRecognitionRef,  \* useRef(null): a stream id or NoStream
  isRecordingRef,        \* useRef(false)
  open,                  \* the `open` prop, changed through handleOpen
  mounted,               \* FALSE once the effect cleanup has run
  apiAvailable,          \* "SpeechRecognition" in window || "webkit..." in window
  status,                \* per stream: "none" | "live" | "stopping" | "ended"
  results,               \* per stream: the platform's event.results list
  timers,                \* pending setTimeout(..., 200) callbacks
  calls,                 \* onNoteCreated(content, folderId) calls made by the last handler
  toast,                 \* toast shown by the last handler: "none" | "unsupported" | "created"
  track,                 \* history switch: TRUE iff restartBase is recorded
  count,                 \* history switch: TRUE iff hist is recorded
  hist,                  \* history: explicit starts that created a stream, and
                         \* 'end' events of streams that were still running
  restartBase            \* history: <<C>>, C the content held when the platform ended
                         \* the running stream and no user operation followed; else <<>>

vars == <<shouldShowOnboarding, isRecording, content, selectedFolderId,
          speechRecognitionRef, isRecordingRef, open, mounted, apiAvailable,
          status, results, timers, calls, toast, track, restartBase,
          count, hist>>

draftVars == <<shouldShowOnboarding, content, selectedFolderId>>
sessionVars == <<isRecording, isRecordingRef, speechRecognitionRef>>
platformVars == <<status, results, timers>>

\* ---- helpers ----

\* A state setter of an unmounted component is a no-op.
SetState(cur, new) == IF mounted THEN new ELSE cur

\* Number of streams created so far; the next stream gets id Created + 1.
Created == Cardinality({s \in StreamIds : status[s] # "none"})

\* SpeechRecognition.stop(): a running stream stops listening and will later
\* deliver 'end'; on a stream already stopping or ended it does nothing.
StopStream(st, s) ==
  IF s # NoStream /\ st[s] = "live" THEN [st EXCEPT ![s] = "stopping"] ELSE st

\* Array.from(event.results).reduce((text, r) => text.concat(r[0].transcript), "")
RECURSIVE Transcription(_)
Transcription(rs) ==
  IF rs = <<>> THEN <<>> ELSE rs[1].transcript \o Transcription(Tail(rs))

\* The result lists the platform may report next for a stream: a new segment
\* appended, or a revision of the in-progress (interim) last segment.
NextResults(rs) ==
  {Append(rs, seg) : seg \in {x \in Segments : Len(rs) < MaxSegments}}
  \cup {[rs EXCEPT ![Len(rs)] = seg] : seg \in {x \in Segments :
       rs # <<>> /\ x # rs[Len(rs)]}}

\* Variant of startRecognition that forgets to release the stream it holds.
startRecognition_noRelease ==
  /\ status' = [status EXCEPT ![Created + 1] = "live"]
  /\ speechRecognitionRef' = Created + 1
  /\ UNCHANGED results

\* startRecognition: release the referenced stream, create and start a new one.
startRecognition ==
  /\ status' = [StopStream(status, speechRecognitionRef) EXCEPT ![Created + 1] = "live"]
  /\ speechRecognitionRef' = Created + 1
  /\ UNCHANGED results

\* Variant of handleStopRecording that stops the stream but keeps the reference.
handleStopRecording_keepRef ==
  /\ isRecording' = SetState(isRecording, FALSE)
  /\ isRecordingRef' = FALSE
  /\ status' = StopStream(status, speechRecognitionRef)
  /\ UNCHANGED speechRecognitionRef

\* Variant of handleStopRecording that leaves isRecordingRef set.
handleStopRecording_keepFlag ==
  /\ isRecording' = SetState(isRecording, FALSE)
  /\ UNCHANGED isRecordingRef
  /\ status' = StopStream(status, speechRecognitionRef)
  /\ speechRecognitionRef' = NoStream

\* handleStopRecording as a function of the current state.
handleStopRecording ==
  /\ isRecording' = SetState(isRecording, FALSE)
  /\ isRecordingRef' = FALSE
  /\ status' = StopStream(status, speechRecognitionRef)
  /\ speechRecognitionRef' = NoStream

\* ---- initial state ----
Init ==
  /\ shouldShowOnboarding = TRUE
  /\ isRecording = FALSE
  /\ content = <<>>
  /\ selectedFolderId = NoFolder
  /\ speechRecognitionRef = NoStream
  /\ isRecordingRef = FALSE
  /\ open = FALSE
  /\ mounted = TRUE
  /\ apiAvailable \in BOOLEAN
  /\ track = FALSE
  /\ count = FALSE
  /\ hist = [starts |-> 0, platformEnds |-> 0]
  /\ status = [s \in StreamIds |-> "none"]
  /\ results = [s \in StreamIds |-> <<>>]
  /\ timers = 0
  /\ calls = <<>>
  /\ toast = "none"
  /\ restartBase = <<>>

\* ---- user / surface operations ----

\* "utilize apenas texto" button, rendered while shouldShowOnboarding.
handleStartEditor ==
  /\ mounted /\ open /\ shouldShowOnboarding
  /\ shouldShowOnboarding' = FALSE
  /\ UNCHANGED <<content, selectedFolderId, sessionVars, platformVars,
                 open, mounted, apiAvailable, track, count, hist>>
  /\ calls' = <<>> /\ toast' = "none"
  /\ UNCHANGED restartBase

\* textarea onChange, rendered while not shouldShowOnboarding.
handleContentChanged ==
  /\ mounted /\ open /\ ~shouldShowOnboarding
  /\ \E value \in TypedValues :
       /\ value # content
       /\ content' = value
       /\ shouldShowOnboarding' = IF value = <<>> THEN TRUE ELSE shouldShowOnboarding
  /\ UNCHANGED <<selectedFolderId, sessionVars, platformVars,
                 open, mounted, apiAvailable, track, count, hist>>
  /\ calls' = <<>> /\ toast' = "none"
  /\ restartBase' = <<>>

\* folder <select> onChange, rendered while not shouldShowOnboarding.
selectFolder ==
  /\ mounted /\ open /\ ~shouldShowOnboarding
  /\ \E f \in FolderIds \cup {NoFolder} :
       /\ f # selectedFolderId
       /\ selectedFolderId' = f
  /\ UNCHANGED <<content, shouldShowOnboarding, sessionVars, platformVars,
                 open, mounted, apiAvailable, track, count, hist>>
  /\ calls' = <<>> /\ toast' = "none"
  /\ UNCHANGED restartBase

\* Variant of handleSaveNote that leaves the folder selection in place.
handleSaveNote_keepFolder ==
  /\ mounted /\ open /\ ~isRecording
  /\ IF content = <<>>
       THEN /\ UNCHANGED <<draftVars, restartBase>>
            /\ calls' = <<>> /\ toast' = "none"
       ELSE /\ calls' = <<<<content, selectedFolderId>>>>
            /\ content' = <<>>
            /\ shouldShowOnboarding' = TRUE
            /\ toast' = "created"
            /\ restartBase' = <<>>
            /\ UNCHANGED selectedFolderId
  /\ UNCHANGED <<sessionVars, platformVars, open, mounted, apiAvailable, track, count, hist>>

\* Variant of handleSaveNote whose button is rendered while recording too.
handleSaveNote_alwaysShown ==
  /\ mounted /\ open
  /\ IF content = <<>>
       THEN /\ UNCHANGED <<draftVars, restartBase>>
            /\ calls' = <<>> /\ toast' = "none"
       ELSE /\ calls' = <<<<content, selectedFolderId>>>>
            /\ content' = <<>>
            /\ selectedFolderId' = NoFolder
            /\ shouldShowOnboarding' = TRUE
            /\ toast' = "created"
            /\ restartBase' = <<>>
  /\ UNCHANGED <<sessionVars, platformVars, open, mounted, apiAvailable, track, count, hist>>

\* Variant of handleSaveNote without the early return on empty content.
handleSaveNote_noGuard ==
  /\ mounted /\ open /\ ~isRecording
  /\ calls' = <<<<content, selectedFolderId>>>>
  /\ content' = <<>>
  /\ selectedFolderId' = NoFolder
  /\ shouldShowOnboarding' = TRUE
  /\ toast' = "created"
  /\ restartBase' = <<>>
  /\ UNCHANGED <<sessionVars, platformVars, open, mounted, apiAvailable, track, count, hist>>

\* "Salvar nota" button, rendered while not isRecording.
handleSaveNote ==
  /\ mounted /\ open /\ ~isRecording
  /\ IF content = <<>>
       THEN /\ UNCHANGED <<draftVars, restartBase>>
            /\ calls' = <<>> /\ toast' = "none"
       ELSE /\ calls' = <<<<content, selectedFolderId>>>>
            /\ content' = <<>>
            /\ selectedFolderId' = NoFolder
            /\ shouldShowOnboarding' = TRUE
            /\ toast' = "created"
            /\ restartBase' = <<>>
  /\ UNCHANGED <<sessionVars, platformVars, open, mounted, apiAvailable, track, count, hist>>

\* Variant of handleStartRecording that marks the session as recording before
\* it tests for the speech-recognition capability.
handleStartRecording_noGate ==
  /\ mounted /\ open /\ shouldShowOnboarding
  /\ IF ~apiAvailable
       THEN /\ toast' = "unsupported"
            /\ isRecording' = TRUE
            /\ isRecordingRef' = TRUE
            /\ shouldShowOnboarding' = FALSE
            /\ UNCHANGED <<speechRecognitionRef, status, results, restartBase,
                           hist>>
       ELSE /\ Created < MaxStreams
            /\ isRecording' = TRUE
            /\ isRecordingRef' = TRUE
            /\ shouldShowOnboarding' = FALSE
            /\ startRecognition
            /\ toast' = "none"
            /\ restartBase' = <<>>
            /\ hist' = IF count THEN [hist EXCEPT !.starts = @ + 1] ELSE hist
  /\ calls' = <<>>
  /\ UNCHANGED <<content, selectedFolderId, timers, open, mounted,
                 apiAvailable, track, count>>

\* "gravando uma nota" button, rendered while shouldShowOnboarding.
handleStartRecording ==
  /\ mounted /\ open /\ shouldShowOnboarding
  /\ IF ~apiAvailable
       THEN /\ toast' = "unsupported"
            /\ UNCHANGED <<shouldShowOnboarding, sessionVars, status, results,
                           restartBase, hist>>
       ELSE /\ Created < MaxStreams
            /\ isRecording' = TRUE
            /\ isRecordingRef' = TRUE
            /\ shouldShowOnboarding' = FALSE
            /\ startRecognition
            /\ toast' = "none"
            /\ restartBase' = <<>>
            /\ hist' = IF count THEN [hist EXCEPT !.starts = @ + 1] ELSE hist
  /\ calls' = <<>>
  /\ UNCHANGED <<content, selectedFolderId, timers, open, mounted,
                 apiAvailable, track, count>>

\* Variant of the stop button that also clears the text.
stopButton_clearsContent ==
  /\ mounted /\ open /\ isRecording
  /\ handleStopRecording
  /\ content' = <<>>
  /\ calls' = <<>> /\ toast' = "none"
  /\ UNCHANGED <<shouldShowOnboarding, selectedFolderId, results, timers, open,
                 mounted, apiAvailable, track, count, hist>>
  /\ restartBase' = <<>>

\* "Gravando!" button, rendered while isRecording.
stopButton ==
  /\ mounted /\ open /\ isRecording
  /\ handleStopRecording
  /\ calls' = <<>> /\ toast' = "none"
  /\ UNCHANGED <<draftVars, results, timers, open, mounted, apiAvailable, track, count, hist>>
  /\ restartBase' = <<>>

\* Variant of handleDialogOpenChange that resets the draft without stopping.
handleDialogOpenChange_noStop ==
  /\ mounted
  /\ \E nextOpen \in BOOLEAN :
       /\ nextOpen # open
       /\ IF ~nextOpen
            THEN /\ content' = <<>>
                 /\ selectedFolderId' = NoFolder
                 /\ shouldShowOnboarding' = TRUE
                 /\ restartBase' = <<>>
                 /\ UNCHANGED <<sessionVars, status>>
            ELSE /\ UNCHANGED <<draftVars, sessionVars, status, restartBase>>
       /\ open' = nextOpen
  /\ calls' = <<>> /\ toast' = "none"
  /\ UNCHANGED <<results, timers, mounted, apiAvailable, track, count, hist>>

\* Dialog.Root onOpenChange: the dialog asks to toggle its open state.
handleDialogOpenChange ==
  /\ mounted
  /\ \E nextOpen \in BOOLEAN :
       /\ nextOpen # open
       /\ IF ~nextOpen
            THEN /\ handleStopRecording
                 /\ content' = <<>>
                 /\ selectedFolderId' = NoFolder
                 /\ shouldShowOnboarding' = TRUE
                 /\ restartBase' = <<>>
            ELSE /\ UNCHANGED <<draftVars, sessionVars, status, restartBase>>
       /\ open' = nextOpen
  /\ calls' = <<>> /\ toast' = "none"
  /\ UNCHANGED <<results, timers, mounted, apiAvailable, track, count, hist>>

\* useEffect cleanup: the component is unmounted.
unmount ==
  /\ mounted
  /\ mounted' = FALSE
  /\ status' = StopStream(status, speechRecognitionRef)
  /\ speechRecognitionRef' = NoStream
  /\ UNCHANGED <<draftVars, isRecording, isRecordingRef, results, timers,
                 open, apiAvailable, track, count, hist>>
  /\ calls' = <<>> /\ toast' = "none"
  /\ restartBase' = <<>>

\* ---- platform callbacks ----

\* Variant of onresult that appends the newest segment's text to content.
onresult_appends ==
  /\ \E s \in StreamIds :
       /\ status[s] \in {"live", "stopping"}
       /\ \E rs \in NextResults(results[s]) :
            /\ results' = [results EXCEPT ![s] = rs]
            /\ content' = SetState(content, content \o rs[Len(rs)].transcript)
  /\ calls' = <<>> /\ toast' = "none"
  /\ UNCHANGED <<shouldShowOnboarding, selectedFolderId, sessionVars, status,
                 timers, open, mounted, apiAvailable, track, count, hist>>
  /\ UNCHANGED restartBase

\* 'result' event of stream s (a stream asked to stop may still report).
onresult ==
  /\ \E s \in StreamIds :
       /\ status[s] \in {"live", "stopping"}
       /\ \E rs \in NextResults(results[s]) :
            /\ results' = [results EXCEPT ![s] = rs]
            /\ content' = SetState(content, Transcription(rs))
  /\ calls' = <<>> /\ toast' = "none"
  /\ UNCHANGED <<shouldShowOnboarding, selectedFolderId, sessionVars, status,
                 timers, open, mounted, apiAvailable, track, count, hist>>
  /\ UNCHANGED restartBase

\* Variant of onerror that marks the session as not recording on any error.
onerror_stops ==
  /\ \E s \in StreamIds : status[s] \in {"live", "stopping"}
  /\ isRecording' = SetState(isRecording, FALSE)
  /\ UNCHANGED <<draftVars, isRecordingRef, speechRecognitionRef, platformVars,
                 open, mounted, apiAvailable, track, count, hist>>
  /\ calls' = <<>> /\ toast' = "none"
  /\ UNCHANGED restartBase

\* 'error' event of stream s.
onerror ==
  /\ \E s \in StreamIds : status[s] \in {"live", "stopping"}
  /\ isRecording' = IF ~isRecordingRef THEN SetState(isRecording, FALSE) ELSE isRecording
  /\ UNCHANGED <<draftVars, isRecordingRef, speechRecognitionRef, platformVars,
                 open, mounted, apiAvailable, track, count, hist>>
  /\ calls' = <<>> /\ toast' = "none"
  /\ UNCHANGED restartBase

\* Variant of onend that never schedules the restart.
onend_noRestart ==
  /\ \E s \in StreamIds :
       /\ status[s] \in {"live", "stopping"}
       /\ status' = [status EXCEPT ![s] = "ended"]
       /\ restartBase' = IF track /\ isRecordingRef /\ status[s] = "live"
                           THEN <<content>> ELSE restartBase
       /\ results' = [results EXCEPT ![s] = <<>>]
       /\ hist' = IF count /\ status[s] = "live"
                    THEN [hist EXCEPT !.platformEnds = @ + 1] ELSE hist
  /\ IF ~isRecordingRef
       THEN /\ isRecording' = SetState(isRecording, FALSE)
            /\ speechRecognitionRef' = NoStream
       ELSE UNCHANGED <<isRecording, speechRecognitionRef>>
  /\ UNCHANGED timers
  /\ calls' = <<>> /\ toast' = "none"
  /\ UNCHANGED <<draftVars, isRecordingRef, open, mounted, apiAvailable, track, count>>

\* 'end' event of stream s: after stop(), or on the platform's own initiative.
\* An ended stream raises no further events, so its result list is dropped.
onend ==
  /\ \E s \in StreamIds :
       /\ status[s] \in {"live", "stopping"}
       /\ status' = [status EXCEPT ![s] = "ended"]
       /\ restartBase' = IF track /\ isRecordingRef /\ status[s] = "live"
                           THEN <<content>> ELSE restartBase
       /\ results' = [results EXCEPT ![s] = <<>>]
       /\ hist' = IF count /\ status[s] = "live"
                    THEN [hist EXCEPT !.platformEnds = @ + 1] ELSE hist
  /\ IF ~isRecordingRef
       THEN /\ isRecording' = SetState(isRecording, FALSE)
            /\ speechRecognitionRef' = NoStream
            /\ UNCHANGED timers
       ELSE /\ timers' = timers + 1
            /\ UNCHANGED <<isRecording, speechRecognitionRef>>
  /\ calls' = <<>> /\ toast' = "none"
  /\ UNCHANGED <<draftVars, isRecordingRef, open, mounted, apiAvailable, track, count>>

\* Variant of the timer callback that restarts without re-reading isRecordingRef.
restartTimer_noCheck ==
  /\ timers > 0
  /\ timers' = timers - 1
  /\ Created < MaxStreams
  /\ startRecognition
  /\ calls' = <<>> /\ toast' = "none"
  /\ UNCHANGED <<draftVars, isRecording, isRecordingRef, open, mounted,
                 apiAvailable, track, count, hist>>
  /\ UNCHANGED restartBase

\* Variant of the timer callback that fires without restarting.
restartTimer_dropsRestart ==
  /\ timers > 0
  /\ timers' = timers - 1
  /\ UNCHANGED <<status, results, speechRecognitionRef>>
  /\ calls' = <<>> /\ toast' = "none"
  /\ UNCHANGED <<draftVars, isRecording, isRecordingRef, open, mounted,
                 apiAvailable, track, count, hist>>
  /\ UNCHANGED restartBase

\* The setTimeout callback scheduled by onend fires.
restartTimer ==
  /\ timers > 0
  /\ timers' = timers - 1
  /\ IF isRecordingRef
       THEN /\ Created < MaxStreams
            /\ startRecognition
       ELSE UNCHANGED <<status, results, speechRecognitionRef>>
  /\ calls' = <<>> /\ toast' = "none"
  /\ UNCHANGED <<draftVars, isRecording, isRecordingRef, open, mounted,
                 apiAvailable, track, count, hist>>
  /\ UNCHANGED restartBase

Next ==
  \/ handleStartEditor
  \/ handleContentChanged
  \/ selectFolder
  \/ handleSaveNote
  \/ handleStartRecording
  \/ stopButton
  \/ handleDialogOpenChange
  \/ unmount
  \/ onresult
  \/ onerror
  \/ onend
  \/ restartTimer

Spec == Init /\ [][Next]_vars

\* The same program with the history variable restartBase recorded.
InitTracked ==
  \E a \in BOOLEAN :
    /\ shouldShowOnboarding = TRUE /\ isRecording = FALSE /\ content = <<>>
    /\ selectedFolderId = NoFolder /\ speechRecognitionRef = NoStream
    /\ isRecordingRef = FALSE /\ open = FALSE /\ mounted = TRUE
    /\ apiAvailable = a /\ track = TRUE /\ count = FALSE
    /\ hist = [starts |-> 0, platformEnds |-> 0]
    /\ status = [s \in StreamIds |-> "none"]
    /\ results = [s \in StreamIds |-> <<>>]
    /\ timers = 0 /\ calls = <<>> /\ toast = "none" /\ restartBase = <<>>

SpecTracked == InitTracked /\ [][Next]_vars

\* The same program with the history counters hist recorded.
InitCounted ==
  \E a \in BOOLEAN :
    /\ shouldShowOnboarding = TRUE /\ isRecording = FALSE /\ content = <<>>
    /\ selectedFolderId = NoFolder /\ speechRecognitionRef = NoStream
    /\ isRecordingRef = FALSE /\ open = FALSE /\ mounted = TRUE
    /\ apiAvailable = a /\ track = FALSE /\ count = TRUE
    /\ hist = [starts |-> 0, platformEnds |-> 0]
    /\ status = [s \in StreamIds |-> "none"]
    /\ results = [s \in StreamIds |-> <<>>]
    /\ timers = 0 /\ calls = <<>> /\ toast = "none" /\ restartBase = <<>>

SpecCounted == InitCounted /\ [][Next]_vars

\* The event loop runs every pending setTimeout callback: the restart timer is
\* weakly fair.  restartBase is recorded.
SpecFair == InitTracked /\ [][Next]_vars /\ WF_vars(restartTimer)

TypeOK ==
  /\ shouldShowOnboarding \in BOOLEAN /\ isRecording \in BOOLEAN
  /\ content \in Seq(Words)
  /\ selectedFolderId \in FolderIds \cup {NoFolder}
  /\ speechRecognitionRef \in StreamIds \cup {NoStream}
  /\ isRecordingRef \in BOOLEAN /\ open \in BOOLEAN /\ mounted \in BOOLEAN
  /\ status \in [StreamIds -> {"none", "live", "stopping", "ended"}]
  /\ timers \in 0..MaxStreams
  /\ Len(calls) <= 1 /\ toast \in {"none", "unsupported", "created"}

\* ---- properties ----

IsPrefix(p, q) == Len(p) <= Len(q) /\ SubSeq(q, 1, Len(p)) = p

LiveStreams == {s \in StreamIds : status[s] = "live"}

\* C1: at most one platform stream is live at any instant, and it is the one
\* speechRecognitionRef holds: a stream replaced by startRecognition has been
\* released (stop() requested) by the time the new one exists.
C1_AtMostOneLiveStream ==
  \A s \in StreamIds : status[s] = "live" => speechRecognitionRef = s

\* A released stream that has not ended yet next to the new, referenced one.
C1_Witness ==
  \E s, u \in StreamIds :
    /\ status[s] = "stopping" /\ status[u] = "live"
    /\ speechRecognitionRef = u /\ isRecordingRef

\* C2: an 'ended' event delivered while isRecordingRef is true schedules
\* exactly one restart and touches neither the session nor the streams; when
\* the delay elapses with the session still not stopped, one new stream is
\* created, started and referenced, and the session is Listening.
C2_UnexpectedEndRestartsOnce ==
  [][ /\ (onend /\ isRecordingRef) =>
           /\ timers' = timers + 1
           /\ Created' = Created
           /\ UNCHANGED sessionVars
      /\ (restartTimer /\ isRecordingRef) =>
           /\ timers' = timers - 1
           /\ Created' = Created + 1
           /\ speechRecognitionRef' = Created'
           /\ status'[speechRecognitionRef'] = "live"
           /\ isRecording' /\ isRecordingRef' ]_vars

\* The platform ended the running stream, no user operation followed, and the
\* restart has created the stream now referenced.
C2_Witness ==
  /\ restartBase # <<>> /\ timers = 0 /\ mounted
  /\ speechRecognitionRef # NoStream
  /\ status[speechRecognitionRef] = "live"
  /\ isRecording /\ isRecordingRef

\* C3: with C the content held when the platform ended the running stream, every
\* value a result event of the restarted stream writes to content has C as a
\* prefix.
C3_TranscriptPreservedAcrossRestart ==
  [][ \A s \in StreamIds :
        ( /\ restartBase # <<>>
          /\ s = speechRecognitionRef /\ status[s] = "live"
          /\ results'[s] # results[s] )
        => IsPrefix(restartBase[1], content') ]_vars

\* C4: while isRecordingRef is false, no step other than an explicit start
\* request schedules a restart, creates a stream, sets a stream handle or makes
\* the session Listening; in particular an 'ended' event does none of these.
C4_StoppedStaysStopped ==
  [][ (~isRecordingRef /\ ~handleStartRecording) =>
        /\ ~isRecordingRef' /\ ~isRecording'
        /\ speechRecognitionRef' = NoStream
        /\ Created' = Created
        /\ timers' <= timers ]_vars

\* Every stream has delivered its 'ended' event after a stop; the session is
\* Stopped with no handle and nothing pending.
C4_Witness ==
  /\ mounted /\ open /\ ~isRecordingRef /\ ~isRecording
  /\ speechRecognitionRef = NoStream /\ timers = 0
  /\ \E s \in StreamIds : status[s] = "ended"
  /\ \A s \in StreamIds : status[s] \in {"none", "ended"}

\* C5: closing the surface while Listening leaves the session Stopped, no
\* stream handle, no live stream, and the draft reset.
C5_CloseWhileListeningResets ==
  [][ (handleDialogOpenChange /\ open /\ isRecording /\ isRecordingRef) =>
        /\ ~open'
        /\ ~isRecording' /\ ~isRecordingRef'
        /\ speechRecognitionRef' = NoStream
        /\ LiveStreams' = {}
        /\ content' = <<>>
        /\ selectedFolderId' = NoFolder
        /\ shouldShowOnboarding' ]_vars

\* The surface is closed, the stream that had produced text is released and
\* the draft is empty.
C5_Witness ==
  /\ mounted /\ ~open /\ ~isRecordingRef /\ content = <<>>
  /\ \E s \in StreamIds : status[s] = "stopping" /\ results[s] # <<>>

\* C6: after the unmount cleanup the session holds no stream handle and no
\* stream is live, whatever events and timers follow.
C6_NoStreamAfterUnmount ==
  ~mounted => (speechRecognitionRef = NoStream /\ LiveStreams = {})

\* C7: save with non-empty content c and folder selection f calls onNoteCreated
\* exactly once, with (c, f), and resets the draft.
C7_SaveCallsBackOnceAndResets ==
  [][ (handleSaveNote /\ content # <<>>) =>
        /\ calls' = << <<content, selectedFolderId>> >>
        /\ content' = <<>>
        /\ selectedFolderId' = NoFolder
        /\ shouldShowOnboarding' ]_vars

\* A save has just handed a note with a selected folder to the callback.
C7_Witness ==
  /\ Len(calls) = 1 /\ calls[1][1] # <<>> /\ calls[1][2] \in FolderIds
  /\ toast = "created" /\ content = <<>> /\ selectedFolderId = NoFolder

\* C8: save with empty content makes no onNoteCreated call and changes neither
\* the draft nor the dictation session.
C8_EmptySaveChangesNothing ==
  [][ (handleSaveNote /\ content = <<>>) =>
        /\ calls' = <<>>
        /\ UNCHANGED <<draftVars, sessionVars, platformVars>> ]_vars

\* The save button is available on an empty draft whose other fields are not
\* the defaults.
C8_Witness ==
  /\ mounted /\ open /\ ~isRecording /\ content = <<>>
  /\ ~shouldShowOnboarding /\ selectedFolderId \in FolderIds

\* C9: shouldShowOnboarding is never true while content is non-empty.
C9_OnboardingOnlyWhenEmpty ==
  ~(shouldShowOnboarding /\ content # <<>>)

\* C10: a non-null stream handle implies the session is Listening.
C10_HandleImpliesListening ==
  speechRecognitionRef # NoStream => (isRecordingRef /\ isRecording)

\* The handle is held while the stream it names has ended and a restart is
\* pending.
C10_Witness ==
  /\ speechRecognitionRef # NoStream
  /\ status[speechRecognitionRef] = "ended" /\ timers > 0

\* C11: without the speech-recognition capability a start request reports the
\* unsupported-platform error and changes neither the session, the draft, the
\* streams nor the timers.
C11_UnsupportedStartChangesNothing ==
  [][ (handleStartRecording /\ ~apiAvailable) =>
        /\ toast' = "unsupported"
        /\ Created' = Created
        /\ UNCHANGED <<draftVars, sessionVars, platformVars>> ]_vars

\* The unsupported-platform error has just been reported.
C11_Witness ==
  /\ toast = "unsupported" /\ ~apiAvailable
  /\ shouldShowOnboarding /\ ~isRecording /\ ~isRecordingRef

\* C12: the stop button (handleStopRecording) writes neither content,
\* selectedFolderId nor shouldShowOnboarding; in particular a stop before any
\* result leaves content as it was.
C12_StopLeavesDraft ==
  [][ stopButton => UNCHANGED draftVars ]_vars

\* Stopped before the stream delivered any result, with text in the draft.
C12_Witness ==
  /\ mounted /\ open /\ ~isRecordingRef /\ ~isRecording
  /\ content # <<>>
  /\ \E s \in StreamIds : status[s] = "stopping" /\ results[s] = <<>>
  /\ \A s \in StreamIds : status[s] \in {"none", "stopping"}

\* C13: a restart timer that fires after stop() has taken effect (isRecording
\* is false) creates no stream and leaves the handle null and the session
\* Stopped.
C13_StopBeatsPendingRestart ==
  [][ (restartTimer /\ ~isRecording) =>
        /\ Created' = Created
        /\ speechRecognitionRef' = NoStream
        /\ ~isRecording' /\ ~isRecordingRef' ]_vars

\* A restart is pending for a stream the platform ended, and the session has
\* been stopped since.
C13_Witness ==
  /\ mounted /\ open /\ timers > 0
  /\ ~isRecording /\ ~isRecordingRef /\ speechRecognitionRef = NoStream
  /\ \A s \in StreamIds : status[s] \in {"none", "ended"}

\* C15: a platform 'error' event changes neither the session, the draft, the
\* streams nor the timers; a restart is scheduled by an 'ended' event only.
C15_ErrorChangesNothing ==
  [][ /\ onerror => UNCHANGED <<draftVars, sessionVars, platformVars>>
      /\ (timers' > timers) => onend ]_vars

\* A Listening session with a running stream that has produced text: the
\* platform may raise 'error' on it.
C15_Witness ==
  /\ mounted /\ open /\ isRecording /\ isRecordingRef
  /\ speechRecognitionRef # NoStream
  /\ status[speechRecognitionRef] = "live"
  /\ results[speechRecognitionRef] # <<>> /\ timers = 0

\* C16: opening the surface starts from a clean draft and a non-listening
\* session without a stream handle.
C16_OpenStartsClean ==
  [][ (handleDialogOpenChange /\ ~open) =>
        /\ content' = <<>>
        /\ selectedFolderId' = NoFolder
        /\ shouldShowOnboarding'
        /\ ~isRecording' /\ ~isRecordingRef'
        /\ speechRecognitionRef' = NoStream ]_vars

\* C17: right after a save that invoked the creation callback the session is
\* not Listening, holds no handle and has no live stream; and while
\* isRecordingRef is false only an explicit start request creates a stream.
C17_SaveLeavesSessionStopped ==
  [][ /\ (calls' # <<>>) =>
           /\ ~isRecording' /\ ~isRecordingRef'
           /\ speechRecognitionRef' = NoStream
           /\ LiveStreams' = {}
      /\ (~isRecordingRef /\ Created' > Created) => handleStartRecording ]_vars

\* A note has just been saved while the stream stopped before it is still
\* winding down.
C17_Witness ==
  /\ Len(calls) = 1 /\ toast = "created"
  /\ \E s \in StreamIds : status[s] = "stopping"

\* C18: a result event sets content to the first-alternative transcripts of the
\* event's result list, one per segment and in order; a revised segment
\* contributes its new text once.
C18_ContentIsConcatenationOfSegments ==
  [][ (onresult /\ mounted) =>
        \E s \in StreamIds :
          /\ results'[s] # results[s]
          /\ Len(content') = Len(results'[s])
          /\ \A i \in 1..Len(results'[s]) :
               <<content'[i]>> = results'[s][i].transcript
          /\ (Len(results'[s]) = Len(results[s])
                => Len(content') = Len(results[s])) ]_vars

\* A stream has reported two segments with different texts and content is
\* their concatenation.
C18_Witness ==
  /\ mounted
  /\ \E s \in StreamIds :
       /\ Len(results[s]) = 2
       /\ results[s][1] # results[s][2]
       /\ content = results[s][1].transcript \o results[s][2].transcript

\* C20: a result event delivered by a released stream (stop() requested, 'end'
\* not yet delivered) does not modify content.
C20_ReleasedStreamResultsIgnored ==
  [][ \A s \in StreamIds :
        (status[s] = "stopping" /\ status'[s] = "stopping"
           /\ results'[s] # results[s])
        => content' = content ]_vars

\* C14: the number of streams created never exceeds the number of explicit
\* starts plus the number of platform-initiated ends of a running stream, and
\* the 'ended' event of a stream the session released itself schedules no
\* restart.
C14_StreamsBoundedByStartsAndEnds ==
  [][ /\ Created' <= hist'.starts + hist'.platformEnds
      /\ \A s \in StreamIds :
           (status[s] = "stopping" /\ status'[s] = "ended")
             => timers' = timers ]_vars

\* The platform ended the referenced stream while the session was Listening and
\* the restart is pending (with room left for one more stream).
UnexpectedEndPending ==
  /\ mounted /\ isRecordingRef /\ timers > 0
  /\ speechRecognitionRef # NoStream
  /\ status[speechRecognitionRef] = "ended"
  /\ Created < MaxStreams

\* A new stream has been created and started, or the session was stopped,
\* closed or unmounted.
RestartedOrStopped ==
  \/ speechRecognitionRef # NoStream /\ status[speechRecognitionRef] = "live"
  \/ ~isRecordingRef
  \/ ~mounted

\* C19: if the platform ends the stream while the session is Listening and no
\* stop, close or unmount follows, then, the restart timer being fair, a new
\* stream is eventually created and started.
C19_UnexpectedEndHeals ==
  UnexpectedEndPending ~> RestartedOrStopped

\* The restart has run after a platform-initiated end: the new stream is
\* referenced and running and has not reported yet.
C19_Witness ==
  /\ mounted /\ isRecordingRef /\ restartBase # <<>>
  /\ speechRecognitionRef # NoStream
  /\ status[speechRecognitionRef] = "live"
  /\ results[speechRecognitionRef] = <<>>
  /\ \E s \in StreamIds : status[s] = "ended"
====
